---- MODULE Spec2Model ----
(***************************************************************************)
(* State-machine model of src/net/scripts.js (spf.net.scripts): dynamic    *)
(* script loading with de-duplication per URL, callback fan-out on         *)
(* completion, replacement of same-name scripts, ordered execution of a    *)
(* parsed queue, prefetching into an iframe, and parsing of script tags.   *)
(*                                                                         *)
(* Script elements are objects with identity: the heap `els` holds every   *)
(* element ever created by load_, `dom` is the list of the ones currently  *)
(* attached to the document head (document order, newest first because     *)
(* load_ inserts before the first child).  A detached element keeps        *)
(* loading: the environment still raises its completion events.            *)
(***************************************************************************)
EXTENDS Integers, Sequences, FiniteSets, TLC

VARIABLES els, dom, subs, timers, calls, log, abandoned, batches,
          iframeEl, iframeDoc, prefetchTimers, segments, parseResult

vars == <<els, dom, subs, timers, calls, log, abandoned, batches,
          iframeEl, iframeDoc, prefetchTimers, segments, parseResult>>

\* The state of prefetch: the iframe of id 'js-prefetch' in the document, the
\* body of its content document, and the pending timers prefetch has set.
primer == <<iframeEl, iframeDoc, prefetchTimers>>

\* The state of a parse: the markup handed to it and what it returned.
parser == <<segments, parseResult>>

----------------------------------------------------------------------------
(* Bounds of the model *)

\* The scope the properties are verified in: elements created, API calls
\* made, completion-related events beyond the first of each element.
MaxEls == 2
MaxCalls == 3
MaxExtraEvents == 1

\* The wider scope the failing scenarios are searched in.
WideEls == 3
WideCalls == 4

\* Calls of execute.
MaxBatches == 1

\* Segments (pieces of text, script tags) of a markup handed to parse.
MaxSegments == 3

\* Where every load completes: calls of execute, and direct calls of load.
LiveBatches == 2
MaxDirect == 1

----------------------------------------------------------------------------
(* Inputs *)

\* URLs are strings, modelled as sequences of character codes.
UrlA == <<97>>
UrlB == <<98>>
UrlC == <<99>>
Urls == {UrlA, UrlB, UrlC}

\* opt_name values; "" is the absent name (cls = opt_name || '').
Names == {"", "g", "h"}

\* The (url, opt_name, has opt_callback) arguments callers pass: the three
\* URLs are versions of the script named "g"; the third is also requested
\* as "h", and unnamed without a callback.
Requests ==
    {<<UrlA, "g", TRUE>>, <<UrlB, "g", TRUE>>, <<UrlC, "g", TRUE>>,
     <<UrlC, "h", TRUE>>, <<UrlC, "", FALSE>>}

\* Parse results handed to execute: queues of {url, text, name} items.
Item(url, text, name) == [url |-> url, text |-> text, name |-> name]

ParseResult(queue) == [original |-> "", parsed |-> "", queue |-> queue]

QueueEmpty == <<>>
QueueMixed == <<Item(UrlA, "", "g"), Item(<<>>, "x", ""), Item(UrlB, "", "g")>>
QueueBlank == <<Item(<<>>, "", ""), Item(UrlC, "", "")>>

\* The (result, has opt_callback) arguments callers pass to execute.
Executions ==
    {<<ParseResult(QueueEmpty), TRUE>>, <<ParseResult(QueueEmpty), FALSE>>,
     <<ParseResult(QueueMixed), TRUE>>, <<ParseResult(QueueBlank), FALSE>>}

\* The values of scriptEl.readyState the environment reports.
ReadyStates == {"loading", "loaded", "complete"}

ID_PREFIX == "js-"

\* spf.string.hashCode: a 31-multiplier rolling hash of the character codes,
\* normalised to a fixed range (2^24 here, so that every intermediate value
\* stays inside the checker's integers; the URLs used are one character long).
RECURSIVE HashFrom(_, _)
HashFrom(h, s) ==
    IF s = <<>> THEN h
    ELSE HashFrom((31 * h + Head(s)) % 16777216, Tail(s))

HashCode(s) == HashFrom(0, s)

\* var id = spf.net.scripts.ID_PREFIX + spf.string.hashCode(url);
Id(url) == <<ID_PREFIX, HashCode(url)>>

Ids == {Id(u) : u \in Urls}

\* No element (document.getElementById returned null).
NoEl == 0

\* The caller of load: 0 is a direct caller, b > 0 the cursor of batch b.
Direct == 0

\* No parse has returned yet; <<r>> when parse has returned r.
NoResult == <<>>

----------------------------------------------------------------------------
(* The program state as one record, threaded through the handlers *)

State ==
    [els |-> els, dom |-> dom, subs |-> subs, calls |-> calls, log |-> log,
     abandoned |-> abandoned, batches |-> batches,
     iframeEl |-> iframeEl, iframeDoc |-> iframeDoc,
     prefetchTimers |-> prefetchTimers]

RECURSIVE FirstWithId(_, _, _)
FirstWithId(st, d, id) ==
    IF d = <<>> THEN NoEl
    ELSE IF st.els[Head(d)].id = id THEN Head(d)
    ELSE FirstWithId(st, Tail(d), id)

\* A lookup that never finds an element.
GetElementByIdNull(st, id) == NoEl

\* document.getElementById(id): the first attached element with that id.
GetElementById(st, id) == FirstWithId(st, st.dom, id)

\* spf.dom.query('script.' + cls): attached script elements of that class,
\* in document order (a static list).
Query(st, cls) == SelectSeq(st.dom, LAMBDA e : st.els[e].cls = cls)

\* spf.dom.dataset.get(el, 'loaded')
IsLoadedEl(st, e) == st.els[e].loaded

\* spf.pubsub.subscribe(id, fn)
Subscribe(st, id, k) == [st EXCEPT !.subs[id] = Append(@, k)]

\* spf.pubsub.clear(id)
Clear(st, id) == [st EXCEPT !.subs[id] = <<>>]

\* scriptEls[i].parentNode.removeChild(scriptEls[i])
RemoveChild(st, e) == [st EXCEPT !.dom = SelectSeq(@, LAMBDA x : x # e)]

Attached(st, e) == \E i \in 1..Len(st.dom) : st.dom[i] = e

----------------------------------------------------------------------------
(* spf.net.scripts.load_ : create the element, wire the handlers, insert *)

\* The new element carries the closure data of fn: the elements captured
\* as scriptElsToRemove.  events counts the completion events the
\* environment raised for it and fired counts how often the guarded body of
\* fn was entered; capLoaded remembers which captured elements carried the
\* loaded marker when they were captured.
NewEl(st, url, id, cls, cap) ==
    [url |-> url, id |-> id, cls |-> cls, loaded |-> FALSE, cap |-> cap,
     capLoaded |-> {e \in {cap[i] : i \in 1..Len(cap)} : st.els[e].loaded},
     events |-> 0, fired |-> 0]

\* A load_ that inserts with appendChild, after the last child.
Load_AppendChild(st, url, id, cls, cap) ==
    [st EXCEPT !.els = Append(@, NewEl(st, url, id, cls, cap)),
               !.dom = @ \o <<Len(st.els) + 1>>]

Load_(st, url, id, cls, cap) ==
    [st EXCEPT !.els = Append(@, NewEl(st, url, id, cls, cap)),
               !.dom = <<Len(st.els) + 1>> \o @]

----------------------------------------------------------------------------
(* spf.net.scripts.unload_ *)

\* An unload_ that clears the channels and leaves the elements in place.
Unload_KeepsElements(st, scriptEls) ==
    [st |-> [st EXCEPT !.subs = [i \in DOMAIN st.subs |->
                IF \E j \in 1..Len(scriptEls) : st.els[scriptEls[j]].id = i
                THEN <<>> ELSE st.subs[i]]],
     threw |-> FALSE]

RECURSIVE Unload_KeepsCallbacks(_, _)
\* An unload_ that removes the elements and leaves their channels alone.
Unload_KeepsCallbacks(st, scriptEls) ==
    IF scriptEls = <<>> THEN [st |-> st, threw |-> FALSE]
    ELSE LET e == Head(scriptEls)
         IN IF ~Attached(st, e) THEN [st |-> st, threw |-> TRUE]
            ELSE Unload_KeepsCallbacks(RemoveChild(st, e), Tail(scriptEls))

\* for each element: clear its channel, then remove it from its parent.
\* parentNode of a detached element is null, so removeChild throws a
\* TypeError there: the loop stops, after the clear of that element.
RECURSIVE Unload_(_, _)
Unload_(st, scriptEls) ==
    IF scriptEls = <<>> THEN [st |-> st, threw |-> FALSE]
    ELSE LET e == Head(scriptEls)
             s1 == Clear(st, st.els[e].id)
         IN IF ~Attached(s1, e) THEN [st |-> s1, threw |-> TRUE]
            ELSE Unload_(RemoveChild(s1, e), Tail(scriptEls))

\* spf.net.scripts.unload
Unload(st, url) ==
    LET id == Id(url)
        scriptEl == GetElementById(st, id)
    IN IF scriptEl # NoEl THEN Unload_(st, <<scriptEl>>).st ELSE st

----------------------------------------------------------------------------
(* load, the callbacks it invokes, and the cursor of execute *)

\* The elements created for id whose fn has not run its body yet.
InFlight(st, id) ==
    {e \in 1..Len(st.els) : st.els[e].id = id /\ st.els[e].fired = 0}

\* One entry of the history of API calls: the URL, whether a callback was
\* passed, the caller, the element returned, the case load found (loaded,
\* loading, absent), and the loads of this URL that were in flight when the
\* call was made.
CallRec(st, url, name, cb, by, item, ret, branch) ==
    [op |-> "load", url |-> url, cb |-> cb, by |-> by,
     item |-> item, ret |-> ret, branch |-> branch,
     inflight |-> InFlight(st, Id(url))]

Record(st, r) == [st EXCEPT !.calls = Append(@, r)]

\* spf.net.scripts.eval: the text runs, then the callback is called.
Eval(st, b, i) == [st EXCEPT !.batches[b].order = Append(@, i)]

RECURSIVE Load(_, _, _, _, _, _)
RECURSIVE Invoke(_, _)
RECURSIVE InvokeAll(_, _)
RECURSIVE GetNextScript(_, _)

\* Calling the opt_callback of load call k: a direct caller's callback only
\* runs; the callback execute passes is getNextScript.
Invoke(st, k) ==
    LET s1 == [st EXCEPT !.log = Append(@, k)]
    IN IF st.calls[k].by # Direct THEN GetNextScript(s1, st.calls[k].by)
       ELSE s1

\* spf.pubsub.publish(id): the subscribers registered when publish starts
\* are called in registration order.
InvokeAll(st, fns) ==
    IF fns = <<>> THEN st ELSE InvokeAll(Invoke(st, Head(fns)), Tail(fns))

Publish(st, id) == InvokeAll(st, st.subs[id])

\* A load that never takes an element for loaded.
IsLoadedNever(st, scriptEl) == FALSE

\* var isLoaded = scriptEl && spf.dom.dataset.get(scriptEl, 'loaded');
IsLoaded(st, scriptEl) == scriptEl # NoEl /\ IsLoadedEl(st, scriptEl)

\* A load that never waits for a load in progress.
IsLoadingNever(st, scriptEl) == FALSE

\* var isLoading = scriptEl && !isLoaded;
IsLoading(st, scriptEl) == scriptEl # NoEl /\ ~IsLoaded(st, scriptEl)

\* spf.net.scripts.load
Load(st, url, cb, name, by, item) ==
    LET id == Id(url)
        cls == name
        scriptEl == GetElementById(st, id)
        isLoaded == IsLoaded(st, scriptEl)
        isLoading == IsLoading(st, scriptEl)
        k == Len(st.calls) + 1
    IN IF isLoaded
       THEN LET s1 == Record(st, CallRec(st, url, name, cb, by, item, scriptEl, "loaded"))
            IN IF cb THEN Invoke(s1, k) ELSE s1
       ELSE LET s1 == IF cb THEN Subscribe(st, id, k) ELSE st
            IN IF isLoading
               THEN Record(s1, CallRec(st, url, name, cb, by, item, scriptEl, "loading"))
               ELSE LET scriptElsToRemove == IF cls # "" THEN Query(s1, cls) ELSE <<>>
                        s2 == Load_(s1, url, id, cls, scriptElsToRemove)
                    IN Record(s2, CallRec(st, url, name, cb, by, item, Len(s2.els), "absent"))

\* getNextScript of spf.net.scripts.execute, for the batch b
GetNextScript(st, b) ==
    LET index == st.batches[b].index + 1
        queue == st.batches[b].queue
        s1 == [st EXCEPT !.batches[b].index = index]
    IN IF index < Len(queue)
       THEN LET item == queue[index + 1]
            IN IF item.url # <<>>
               THEN Load([s1 EXCEPT !.batches[b].order = Append(@, index)],
                         item.url, TRUE, item.name, b, index + 1)
               ELSE IF item.text # ""
               THEN GetNextScript(Eval(s1, b, index), b)
               ELSE GetNextScript(s1, b)
       ELSE IF st.batches[b].onDone
            THEN [s1 EXCEPT !.batches[b].done = @ + 1]
            ELSE s1

\* An execute whose empty-queue case does not return.
ExecuteNoReturn(st, result, onDone) ==
    LET b == Len(st.batches) + 1
        s1 == [st EXCEPT !.batches = Append(@,
                  [queue |-> result.queue, index |-> -1, onDone |-> onDone,
                   done |-> 0, order |-> <<>>])]
        s2 == IF Len(result.queue) <= 0 /\ onDone
              THEN [s1 EXCEPT !.batches[b].done = @ + 1] ELSE s1
    IN GetNextScript(s2, b)

\* spf.net.scripts.execute
Execute(st, result, onDone) ==
    LET b == Len(st.batches) + 1
        s1 == [st EXCEPT !.batches = Append(@,
                  [queue |-> result.queue, index |-> -1, onDone |-> onDone,
                   done |-> 0, order |-> <<>>])]
    IN IF Len(result.queue) <= 0
       THEN IF onDone THEN [s1 EXCEPT !.batches[b].done = @ + 1] ELSE s1
       ELSE GetNextScript(s1, b)

\* The guarded body of fn: mark e loaded, remove the captured elements,
\* publish and clear.  An exception of unload_ ends it.
FnBody(st, e) ==
    LET s1 == [st EXCEPT !.els[e].loaded = TRUE,
                         !.els[e].fired = @ + 1]
        r == Unload_(s1, st.els[e].cap)
    IN IF r.threw THEN r.st
       ELSE Clear(Publish(r.st, st.els[e].id), st.els[e].id)

\* An fn without the guard on the loaded marker.
FnUnguarded(st, e) == FnBody(st, e)

\* The function load passes to load_ as fn, for the element e it created.
Fn(st, e) ==
    IF ~IsLoadedEl(st, e) THEN FnBody(st, e) ELSE st

----------------------------------------------------------------------------
(* spf.net.scripts.prefetch, prefetch_ and preexecute *)

\* iframeEl.contentWindow.document.getElementById(id): whether the content
\* document of the iframe holds an element with that id.
IframeGetElementById(st, id) ==
    \E i \in 1..Len(st.iframeDoc) : st.iframeDoc[i].id = id

\* One entry of the history of API calls for a prefetch: the element found in
\* the document (or none), and what the call did: nothing because the
\* document holds the element ("present"), nothing because the iframe holds
\* a placeholder ("prefetched"), or set the timer ("scheduled").
PrefetchRec(st, url, scriptEl, branch) ==
    [op |-> "prefetch", url |-> url, cb |-> FALSE, by |-> Direct, item |-> 0,
     ret |-> scriptEl, branch |-> branch, inflight |-> InFlight(st, Id(url))]

\* spf.dom.createIframe(iframeId): the iframe is created and put into the
\* document, where the next call finds it by its id.
CreateIframe(st) == [st EXCEPT !.iframeEl = TRUE]

\* A prefetch that does not look for the element in the document.
PrefetchUnchecked(st, url) ==
    LET id == Id(url)
        scriptEl == GetElementById(st, id)
    IN Record([CreateIframe(st) EXCEPT !.prefetchTimers = Append(@, url)],
              PrefetchRec(st, url, scriptEl, "scheduled"))

\* spf.net.scripts.prefetch.  The iframe of id 'js-prefetch' is created on the
\* first call that gets that far (spf.dom.createIframe puts it into the
\* document); its id is no script id, which end in a number.  The timer
\* closes over url and id.
Prefetch(st, url) ==
    LET id == Id(url)
        scriptEl == GetElementById(st, id)
    IN IF scriptEl # NoEl
       THEN Record(st, PrefetchRec(st, url, scriptEl, "present"))
       ELSE IF ~st.iframeEl
       THEN Record([CreateIframe(st) EXCEPT !.prefetchTimers = Append(@, url)],
                   PrefetchRec(st, url, scriptEl, "scheduled"))
       ELSE IF IframeGetElementById(st, id)
       THEN Record(st, PrefetchRec(st, url, scriptEl, "prefetched"))
       ELSE Record([st EXCEPT !.prefetchTimers = Append(@, url)],
                   PrefetchRec(st, url, scriptEl, "scheduled"))

\* spf.net.scripts.prefetch_ with the content document of the iframe: an
\* <object> of that id is appended to its body.  With spf.dom.IS_IE the
\* request is made by a <script> that is never inserted, otherwise by the
\* data attribute of the <object>.
Prefetch_(st, url, id, isIE) ==
    [st EXCEPT !.iframeDoc = Append(@,
        [id |-> id,
         data |-> IF isIE THEN <<>> ELSE url,
         script |-> IF isIE THEN url ELSE <<>>])]

RECURSIVE PrefetchAll(_, _)
\* The loop of preexecute over the queue.
PrefetchAll(st, queue) ==
    IF queue = <<>> THEN st
    ELSE IF Head(queue).url # <<>>
    THEN PrefetchAll(Prefetch(st, Head(queue).url), Tail(queue))
    ELSE PrefetchAll(st, Tail(queue))

\* spf.net.scripts.preexecute
Preexecute(st, res) ==
    IF Len(res.queue) <= 0 THEN st ELSE PrefetchAll(st, res.queue)

----------------------------------------------------------------------------
(* spf.net.scripts.parse *)

\* A JavaScript string is a sequence of UTF-16 code units, and the regular
\* expressions (no flag u) match unit by unit: markup is modelled as the
\* sequence of its code units, numbers in 0..65535.

\* The printable ASCII characters in code unit order, U+0020 to U+005F and
\* U+0061 to U+007E (a string of this module cannot hold U+0060).
PrintableLow ==
    <<
      " ", "!", "\"", "#", "$", "%", "&", "'", "(", ")", "*", "+",
      ",", "-", ".", "/", "0", "1", "2", "3", "4", "5", "6", "7",
      "8", "9", ":", ";", "<", "=", ">", "?", "@", "A", "B", "C",
      "D", "E", "F", "G", "H", "I", "J", "K", "L", "M", "N", "O",
      "P", "Q", "R", "S", "T", "U", "V", "W", "X", "Y", "Z", "[",
      "\\", "]", "^", "_"
    >>

PrintableHigh ==
    <<
      "a", "b", "c", "d", "e", "f", "g", "h", "i", "j", "k", "l",
      "m", "n", "o", "p", "q", "r", "s", "t", "u", "v", "w", "x",
      "y", "z", "{", "|", "}", "~"
    >>

\* The code unit of a printable ASCII character.
Ord(ch) ==
    IF \E k \in 1..Len(PrintableLow) : PrintableLow[k] = ch
    THEN 31 + (CHOOSE k \in 1..Len(PrintableLow) : PrintableLow[k] = ch)
    ELSE 96 + (CHOOSE k \in 1..Len(PrintableHigh) : PrintableHigh[k] = ch)

\* The code units of a string of printable ASCII characters.
Units(chars) == [k \in 1..Len(chars) |-> Ord(chars[k])]

\* Flag i compares the canonical (upper-case) forms of two units, and a unit
\* outside ASCII whose upper-case is in ASCII keeps itself as its form, so
\* only A-Z and a-z fold onto the letters of a literal.
ToLower(c) == IF c \in Ord("A")..Ord("Z") THEN c + 32 ELSE c

\* The characters of \s: tab, line feed, line tabulation, form feed, carriage
\* return, space, no-break space, ogham space mark, U+2000 to U+200A, line
\* and paragraph separator, narrow no-break space, medium mathematical
\* space, ideographic space and the byte order mark.
WhiteSpace ==
    {9, 10, 11, 12, 13, 32, 160, 5760} \cup (8192..8202)
        \cup {8232, 8233, 8239, 8287, 12288, 65279}

\* \s of the regular expressions; [\S] is every other code unit.
IsSpace(c) == c \in WhiteSpace

\* Whether the literal lit stands at position i of s.
MatchesAt(s, i, lit, ignoreCase) ==
    /\ i + Len(lit) - 1 <= Len(s)
    /\ \A k \in 1..Len(lit) :
          (IF ignoreCase THEN ToLower(s[i + k - 1]) ELSE s[i + k - 1]) = lit[k]

RECURSIVE IndexOf(_, _, _, _)
\* The first position from i on where lit stands in s, 0 when there is none.
IndexOf(s, i, lit, ignoreCase) ==
    IF i + Len(lit) - 1 > Len(s) THEN 0
    ELSE IF MatchesAt(s, i, lit, ignoreCase) THEN i
    ELSE IndexOf(s, i + 1, lit, ignoreCase)

\* The literals of SCRIPT_TAG_REGEXP, SRC_ATTR_REGEXP and CLASS_ATTR_REGEXP.
ScriptOpen == Units(<<"<", "s", "c", "r", "i", "p", "t">>)
TagEnd == Units(<<">">>)
ScriptClose == Units(<<"<", "/", "s", "c", "r", "i", "p", "t", ">">>)
SrcOpen == Units(<<"s", "r", "c", "=", "\"">>)
ClassOpen == Units(<<"c", "l", "a", "s", "s", "=", "\"">>)

RECURSIVE LastIndexOf(_, _, _, _)
\* The last position from i on where lit stands in s, 0 when there is none.
LastIndexOf(s, i, lit, ignoreCase) ==
    LET j == IndexOf(s, i, lit, ignoreCase)
    IN IF j = 0 THEN 0
       ELSE LET l == LastIndexOf(s, j + 1, lit, ignoreCase)
            IN IF l = 0 THEN j ELSE l

\* A greedy ([\s\S]*) for the text: the last closing tag ends the match.
CloseTagGreedy(html, i) == LastIndexOf(html, i, ScriptClose, TRUE)

\* ([\s\S]*?)\x3c\/script\x3e : the text ends at the first closing tag.
CloseTag(html, i) == IndexOf(html, i, ScriptClose, TRUE)

\* One exec of SCRIPT_TAG_REGEXP from position i (flags ig): the leftmost
\* "<script", the attributes up to the first ">" after it, the text up to
\* the first "</script>" after that.  When no closing tag follows the first
\* ">", none follows a later one, and no later "<script" matches either.
ScriptTagMatch(html, i) ==
    LET p == IndexOf(html, i, ScriptOpen, TRUE)
        q == IF p = 0 THEN 0 ELSE IndexOf(html, p + Len(ScriptOpen), TagEnd, FALSE)
        r == IF q = 0 THEN 0 ELSE CloseTag(html, q + 1)
    IN IF r = 0
       THEN [found |-> FALSE, index |-> 0, attr |-> <<>>, text |-> <<>>, next |-> 0]
       ELSE [found |-> TRUE, index |-> p,
             attr |-> SubSeq(html, p + Len(ScriptOpen), q - 1),
             text |-> SubSeq(html, q + 1, r - 1),
             next |-> r + Len(ScriptClose)]

RECURSIVE RunEnd(_, _)
\* The last position of the run of non-space characters that starts at i.
RunEnd(s, i) ==
    IF i > Len(s) \/ IsSpace(s[i]) THEN i - 1 ELSE RunEnd(s, i + 1)

\* The last double quote of s between lo and hi, 0 when there is none.
LastQuote(s, lo, hi) ==
    LET js == {j \in lo..hi : s[j] = Ord("\"")}
    IN IF js = {} THEN 0 ELSE CHOOSE j \in js : \A x \in js : x <= j

RECURSIVE AttrMatch(_, _, _)
\* attr.match(/src="([\S]+)"/) and attr.match(/class="([\S]+)"/), the
\* capture or '' : the leftmost opening literal that is followed by one or
\* more non-space characters and a double quote; [\S]+ is greedy, so the
\* capture runs to the last double quote of the run.
AttrMatch(attr, open, i) ==
    LET p == IndexOf(attr, i, open, FALSE)
    IN IF p = 0 THEN <<>>
       ELSE LET v == p + Len(open)
                j == LastQuote(attr, v + 1, RunEnd(attr, v))
            IN IF j = 0 THEN AttrMatch(attr, open, p + 1)
               ELSE SubSeq(attr, v, j - 1)

RECURSIVE ReplaceScripts(_, _, _)
\* html.replace(SCRIPT_TAG_REGEXP, function(fullMatch, attr, text) {...}):
\* every match pushes an item and is replaced by ''.
ReplaceScripts(html, i, acc) ==
    LET m == ScriptTagMatch(html, i)
    IN IF ~m.found
       THEN [parsed |-> acc.parsed \o SubSeq(html, i, Len(html)),
             queue |-> acc.queue]
       ELSE ReplaceScripts(html, m.next,
                [parsed |-> acc.parsed \o SubSeq(html, i, m.index - 1),
                 queue |-> Append(acc.queue,
                              [url |-> AttrMatch(m.attr, SrcOpen, 1),
                               text |-> m.text,
                               name |-> AttrMatch(m.attr, ClassOpen, 1)])])

\* spf.net.scripts.parse; !html holds for '' as for null and undefined.
Parse(html) ==
    IF html = <<>>
    THEN [original |-> <<>>, parsed |-> <<>>, queue |-> <<>>]
    ELSE LET r == ReplaceScripts(html, 1, [parsed |-> <<>>, queue |-> <<>>])
         IN [original |-> html, parsed |-> r.parsed, queue |-> r.queue]

\* The markup handed to parse: pieces of text and script tags.
Text(chars) ==
    [kind |-> "text", chars |-> chars, url |-> <<>>, text |-> <<>>, name |-> <<>>]

Script(chars, url, text, name) ==
    [kind |-> "script", chars |-> chars, url |-> url, text |-> text, name |-> name]

\* rest
TextRest == Text(Units(<<"r", "e", "s", "t">>))

\* <p>
TextTag == Text(Units(<<"<", "p", ">">>))

\* <script src="a.js"></script>
ScriptSrc ==
    Script(ScriptOpen \o Units(<<" ">>) \o SrcOpen
               \o Units(<<"a", ".", "j", "s", "\"", ">">>) \o ScriptClose,
           Units(<<"a", ".", "j", "s">>), <<>>, <<>>)

\* <script>x</script>
ScriptText ==
    Script(ScriptOpen \o Units(<<">", "x">>) \o ScriptClose,
           <<>>, Units(<<"x">>), <<>>)

\* <SCRIPT class="g" src="b">y</SCRIPT>
ScriptNamed ==
    Script(Units(<<"<", "S", "C", "R", "I", "P", "T", " ">>) \o ClassOpen
               \o Units(<<"g", "\"", " ">>) \o SrcOpen
               \o Units(<<"b", "\"", ">", "y">>)
               \o Units(<<"<", "/", "S", "C", "R", "I", "P", "T", ">">>),
           Units(<<"b">>), Units(<<"y">>), Units(<<"g">>))

\* <script(CR)class="h"(FF)src="c"></script>: a carriage return (13) and a
\* form feed (12) stand where the other tags have spaces.
ScriptFeed ==
    Script(ScriptOpen \o <<13>> \o ClassOpen \o Units(<<"h", "\"">>) \o <<12>>
               \o SrcOpen \o Units(<<"c", "\"", ">">>) \o ScriptClose,
           Units(<<"c">>), <<>>, Units(<<"h">>))

\* <script src="(U+00E9).js"(U+2028)class="caf(U+00E9)"></script>: values
\* with the letter e acute (233), a line separator (8232) between the
\* attributes.
ScriptWide ==
    Script(ScriptOpen \o Units(<<" ">>) \o SrcOpen \o <<233>>
               \o Units(<<".", "j", "s", "\"">>) \o <<8232>> \o ClassOpen
               \o Units(<<"c", "a", "f">>) \o <<233>> \o Units(<<"\"", ">">>)
               \o ScriptClose,
           <<233>> \o Units(<<".", "j", "s">>), <<>>,
           Units(<<"c", "a", "f">>) \o <<233>>)

Segments ==
    {TextRest, TextTag, ScriptSrc, ScriptText, ScriptNamed, ScriptFeed,
     ScriptWide}

RECURSIVE Html(_)
\* The markup string of a sequence of segments.
Html(segs) == IF segs = <<>> THEN <<>> ELSE Head(segs).chars \o Html(Tail(segs))

----------------------------------------------------------------------------
(* Initial state and actions *)

Idle ==
    /\ els = <<>>
    /\ dom = <<>>
    /\ subs = [i \in Ids |-> <<>>]
    /\ timers = <<>>
    /\ calls = <<>>
    /\ log = <<>>
    /\ abandoned = {}
    /\ batches = <<>>
    /\ iframeEl = FALSE
    /\ iframeDoc = <<>>
    /\ prefetchTimers = <<>>
    /\ parseResult = NoResult

Init ==
    /\ Idle
    /\ segments = <<>>

Range(s) == {s[i] : i \in 1..Len(s)}

\* A scope: the caps on the heap, on the call history and on the extra
\* events, and the arguments direct callers of load pass.
Scope(maxEls, maxCalls, maxExtra, requests) ==
    [els |-> maxEls, calls |-> maxCalls, extra |-> maxExtra, requests |-> requests]

\* The handler's result becomes the next state; the heap and the call
\* history are capped by the scope.
Commit(st, lim) ==
    /\ Len(st.els) <= lim.els
    /\ Len(st.calls) <= lim.calls
    /\ els' = st.els
    /\ dom' = st.dom
    /\ subs' = st.subs
    /\ calls' = st.calls
    /\ log' = st.log
    /\ abandoned' = st.abandoned
    /\ batches' = st.batches
    /\ iframeEl' = st.iframeEl
    /\ iframeDoc' = st.iframeDoc
    /\ prefetchTimers' = st.prefetchTimers
    /\ UNCHANGED parser

\* A direct call spf.net.scripts.load(url, opt_callback, opt_name)
Request(u, n, c, lim) ==
    /\ Commit(Load(State, u, c, n, Direct, 0), lim)
    /\ UNCHANGED timers

\* A direct call spf.net.scripts.unload(url).  A call that finds no element
\* changes nothing.  The callbacks waiting on an element that is not loaded
\* yet are remembered as abandoned.
Release(u, lim) ==
    LET scriptEl == GetElementById(State, Id(u))
        pending == scriptEl # NoEl /\ ~IsLoadedEl(State, scriptEl)
        s1 == Unload(State, u)
        s2 == [s1 EXCEPT !.abandoned =
                  IF pending THEN @ \cup Range(subs[Id(u)]) ELSE @]
    IN IF scriptEl = NoEl
       THEN UNCHANGED vars
       ELSE /\ Commit(Record(s2, [op |-> "unload", url |-> u, cb |-> FALSE,
                                  by |-> Direct, item |-> 0, ret |-> scriptEl,
                                  branch |-> IF pending THEN "loading" ELSE "loaded",
                                  inflight |-> InFlight(State, Id(u))]), lim)
            /\ UNCHANGED timers

\* scriptEl.onload: setTimeout(fn, 0)
OnLoadHandler(e) ==
    /\ timers' = Append(timers, e)
    /\ UNCHANGED <<dom, subs, calls, log, abandoned, batches, primer, parser>>

RECURSIVE ExtraEvents(_)
\* The events raised so far beyond the first completion event of each
\* element: the redundant completion events.
ExtraEvents(s) ==
    IF s = <<>> THEN 0
    ELSE (IF Head(s).events > 1 THEN Head(s).events - 1 ELSE 0)
         + ExtraEvents(Tail(s))

\* The environment may raise a completion event for e: its first one, or a
\* redundant one while the budget of extra events lasts.
MayComplete(e, lim) == els[e].events = 0 \/ ExtraEvents(els) < lim.extra

\* The environment raises the load event of element e.
OnLoad(e, lim) ==
    /\ MayComplete(e, lim)
    /\ els' = [els EXCEPT ![e].events = @ + 1]
    /\ OnLoadHandler(e)

\* The environment sets scriptEl.readyState to rs and raises
\* readystatechange; scriptEl.onreadystatechange calls onload for 'loaded'
\* and 'complete' and does nothing for another value.
OnReadyStateChange(e, rs, lim) ==
    IF rs \in {"loaded", "complete"}
    THEN /\ MayComplete(e, lim)
         /\ els' = [els EXCEPT ![e].events = @ + 1]
         /\ OnLoadHandler(e)
    ELSE UNCHANGED vars

\* The scheduler runs the oldest pending setTimeout(fn, 0).
Tick(lim) ==
    /\ timers # <<>>
    /\ Commit(Fn(State, Head(timers)), lim)
    /\ timers' = Tail(timers)

\* A call spf.net.scripts.execute(result, opt_callback)
Exec(result, onDone, lim) ==
    /\ Len(batches) < MaxBatches
    /\ Commit(Execute(State, result, onDone), lim)
    /\ UNCHANGED timers

\* A direct call spf.net.scripts.prefetch(url)
Prime(u, lim) ==
    /\ Commit(Prefetch(State, u), lim)
    /\ UNCHANGED timers

\* A call spf.net.scripts.preexecute(result)
Preexec(res, lim) ==
    /\ Preexecute(State, res) # State
    /\ Commit(Preexecute(State, res), lim)
    /\ UNCHANGED timers

\* The scheduler runs the oldest pending timer of prefetch.  These timers
\* touch only the content document of the iframe and the timers of load touch
\* only the document and the channels, so the two queues are kept apart.
PrefetchTick(isIE, lim) ==
    /\ prefetchTimers # <<>>
    /\ LET url == Head(prefetchTimers)
           s0 == [State EXCEPT !.prefetchTimers = Tail(@)]
       IN Commit(Prefetch_(s0, url, Id(url), isIE), lim)
    /\ UNCHANGED timers

\* A call spf.net.scripts.parse(html) with the markup of the segments.
DoParse ==
    /\ parseResult = NoResult
    /\ parseResult' = <<Parse(Html(segments))>>
    /\ UNCHANGED <<els, dom, subs, timers, calls, log, abandoned, batches,
                   primer, segments>>

\* A step of the program and its environment within a scope.
Step(lim) ==
    \/ \E r \in lim.requests : Request(r[1], r[2], r[3], lim)
    \/ \E u \in Urls : Release(u, lim)
    \/ \E e \in 1..Len(els) : OnLoad(e, lim)
    \/ \E e \in 1..Len(els), rs \in ReadyStates : OnReadyStateChange(e, rs, lim)
    \/ Tick(lim)

Narrow == Scope(MaxEls, MaxCalls, MaxExtraEvents, Requests)

Wide == Scope(WideEls, WideCalls, MaxExtraEvents, Requests)

Next == Step(Narrow)

Spec == Init /\ [][Next]_vars

WideNext == Step(Wide)

\* The same program in the wider scope.
WideSpec == Init /\ [][WideNext]_vars

\* Callers that load three versions of the script named "g" and never unload;
\* each load raises one completion event (the guard of fn absorbs others).
RaceRequests == {<<UrlA, "g", TRUE>>, <<UrlB, "g", TRUE>>, <<UrlC, "g", TRUE>>}

RaceScope == Scope(WideEls, WideCalls, 0, RaceRequests)

RaceNext ==
    \/ \E r \in RaceRequests : Request(r[1], r[2], r[3], RaceScope)
    \/ \E e \in 1..Len(els) : OnLoad(e, RaceScope)
    \/ \E e \in 1..Len(els), rs \in ReadyStates : OnReadyStateChange(e, rs, RaceScope)
    \/ Tick(RaceScope)

\* The program with callers that never call unload.
RaceSpec == Init /\ [][RaceNext]_vars

\* Callers that run queues of scripts named "g" and load another version of
\* "g" directly, and never unload.
LiveRequests == {<<UrlC, "g", TRUE>>}

QueueShort == <<Item(UrlB, "", "g")>>

LiveExecutions == {ParseResult(QueueMixed), ParseResult(QueueShort)}

\* The most load calls such a run makes (a queue has up to two URLs); the
\* caps of the scope never stop a handler.
LiveCalls == MaxDirect + 2 * LiveBatches

LiveScope == Scope(LiveCalls, LiveCalls, MaxExtraEvents, LiveRequests)

DirectCalls == {k \in 1..Len(calls) : calls[k].by = Direct}

LiveRequest(r) ==
    /\ Cardinality(DirectCalls) < MaxDirect
    /\ Request(r[1], r[2], r[3], LiveScope)

LiveExec(res) ==
    /\ Len(batches) < LiveBatches
    /\ Commit(Execute(State, res, TRUE), LiveScope)
    /\ UNCHANGED timers

\* The first completion event of the load of element e.
FirstCompletion(e) ==
    /\ e \in 1..Len(els)
    /\ els[e].events = 0
    /\ OnLoad(e, LiveScope)

LiveNext ==
    \/ \E r \in LiveRequests : LiveRequest(r)
    \/ \E res \in LiveExecutions : LiveExec(res)
    \/ \E e \in 1..Len(els) : OnLoad(e, LiveScope)
    \/ \E e \in 1..Len(els), rs \in ReadyStates : OnReadyStateChange(e, rs, LiveScope)
    \/ Tick(LiveScope)

\* The program with callers that never unload, in an environment where every
\* load that was started signals completion.
LiveSpec ==
    /\ Init
    /\ [][LiveNext]_vars
    /\ \A e \in 1..LiveCalls : WF_vars(FirstCompletion(e))

\* Callers that also prefetch: two versions of the script named "g" are
\* loaded, unloaded and prefetched, alone and as the items of a queue.
PrimeRequests == {<<UrlA, "g", TRUE>>, <<UrlB, "g", FALSE>>}

PrimeScope == Scope(MaxEls, MaxCalls, MaxExtraEvents, PrimeRequests)

QueueTwice == <<Item(UrlA, "", "g"), Item(<<>>, "x", ""), Item(UrlA, "", "g")>>

PrimeNext ==
    \/ Step(PrimeScope)
    \/ \E u \in {UrlA, UrlB} : Prime(u, PrimeScope)
    \/ Preexec(ParseResult(QueueTwice), PrimeScope)
    \/ \E isIE \in BOOLEAN : PrefetchTick(isIE, PrimeScope)

\* The program with callers that prefetch.
PrimeSpec == Init /\ [][PrimeNext]_vars

\* The markups handed to parse: up to MaxSegments segments.
Markups == UNION {[1..n -> Segments] : n \in 0..MaxSegments}

ParseInit ==
    /\ Idle
    /\ segments \in Markups

ParseNext == DoParse

\* parse applied to each markup.
ParseSpec == ParseInit /\ [][ParseNext]_vars

\* Direct callers beside a batch load one named URL of the batch.
ExecRequests == {<<UrlA, "g", TRUE>>}

ExecScope == Scope(WideEls, WideCalls, MaxExtraEvents, ExecRequests)

ExecNext ==
    \/ Step(ExecScope)
    \/ \E x \in Executions : Exec(x[1], x[2], ExecScope)

\* The same program with callers that also run parsed queues.
ExecSpec == Init /\ [][ExecNext]_vars

----------------------------------------------------------------------------
(* Vocabulary of the properties *)

ElIds == 1..Len(els)

CallIds == 1..Len(calls)

\* The load calls that passed a callback.
CbCalls == {k \in CallIds : calls[k].op = "load" /\ calls[k].cb}

Count(s, x) == Cardinality({i \in 1..Len(s) : s[i] = x})

\* The invocations of the callbacks in ks, in the order they happened.
Project(s, ks) == SelectSeq(s, LAMBDA x : x \in ks)

IsAttached(e) == Attached(State, e)

\* unload(u) was called after call lo and before call hi.
UnloadBetween(u, lo, hi) ==
    \E j \in CallIds : lo < j /\ j < hi /\ calls[j].op = "unload" /\ calls[j].url = u

UnloadEver(u) == UnloadBetween(u, 0, Len(calls) + 1)

\* Element e was detached by unload while its load was pending.
ReleasedPending(e) ==
    \E j \in CallIds :
        calls[j].op = "unload" /\ calls[j].ret = e /\ calls[j].branch = "loading"

\* The body of fn ran for e in this step.
BodyRuns(e) == els[e].fired = 0 /\ els'[e].fired = 1

----------------------------------------------------------------------------
(* C1 *)

\* C1: two load calls for the same URL, both made before that URL's load
\* completed and with no unload of it in between, return the same element
\* with no second element created, and once the element's load has completed
\* each of the two callbacks has been called exactly once, the first call's
\* before the second's.  (Stated for the elements that are still attached:
\* neither unload nor a later script of the same name removed them.)
C1_TwoRequestsOneLoad ==
    \A k1 \in CbCalls, k2 \in CbCalls :
        LET e == calls[k1].ret
        IN (/\ k1 < k2
            /\ calls[k1].url = calls[k2].url
            /\ calls[k1].branch # "loaded"
            /\ e \in calls[k2].inflight
            /\ ~UnloadBetween(calls[k1].url, k1, k2)
            /\ IsAttached(e))
           => /\ calls[k2].ret = e
              /\ calls[k2].branch = "loading"
              /\ els[e].fired > 0 => Project(log, {k1, k2}) = <<k1, k2>>

----------------------------------------------------------------------------
(* C2 *)

\* C2: a callback registered by load while the URL's element is loading has
\* been called exactly once when that element's load has completed, provided
\* unload was never called for the URL.  (Stated for elements that are still
\* attached when their load completes.)
C2_RegisteredCallbackDelivered ==
    \A k \in CbCalls :
        LET e == calls[k].ret
        IN (/\ calls[k].branch # "loaded"
            /\ els[e].fired > 0
            /\ IsAttached(e)
            /\ ~UnloadEver(calls[k].url))
           => Count(log, k) = 1

----------------------------------------------------------------------------
(* C3 *)

\* The loads of url that have not signalled completion yet.
Outstanding(u) == {e \in ElIds : els[e].url = u /\ els[e].events = 0}

\* C3 as claimed: per URL at most one load that was started and has not
\* signalled completion exists.
C3_OneOutstandingFetch ==
    \A u \in Urls : Cardinality(Outstanding(u)) <= 1

\* C3 as amended: per URL at most one load that has not signalled completion
\* belongs to an element that is still attached; unload (and replacement by
\* a script of the same name) leaves the load of the detached element
\* outstanding, and load may start another one beside it.
C3_OneAttachedOutstandingFetch ==
    \A u \in Urls : Cardinality({e \in Outstanding(u) : IsAttached(e)}) <= 1

\* A URL was unloaded while loading and requested again: two loads of it
\* are outstanding, one of them for the attached element.
C3_Witness ==
    \E u \in Urls : \E e1 \in Outstanding(u), e2 \in Outstanding(u) :
        e1 # e2 /\ ~IsAttached(e1) /\ IsAttached(e2)

----------------------------------------------------------------------------
(* C5 *)

\* No load that was started is still awaiting completion: fn has run for
\* every element created.
Quiescent == \A e \in ElIds : els[e].fired > 0

AttachedOfClass(g) == {e \in ElIds : IsAttached(e) /\ els[e].cls = g}

\* C5: whenever no started load is awaiting completion, at most one element
\* of each non-empty name is attached.
C5_OneAttachedPerName ==
    Quiescent => \A g \in Names \ {""} : Cardinality(AttachedOfClass(g)) <= 1

\* All loads are complete, several scripts of one name were loaded and one of
\* them is left attached.
C5_Witness ==
    /\ Quiescent
    /\ \E g \in Names \ {""} :
          /\ Cardinality({e \in ElIds : els[e].cls = g}) >= 2
          /\ Cardinality(AttachedOfClass(g)) = 1

----------------------------------------------------------------------------
(* C6 *)

\* C6: a callback that was registered for a URL when unload was called on
\* its pending load is never called afterwards.
C6_AbandonedNeverCalled ==
    \A k \in abandoned : Count(log, k) = 0

\* A pending load with a registered callback was unloaded and its load
\* completed later.
C6_Witness ==
    \E k \in abandoned :
        /\ ReleasedPending(calls[k].ret)
        /\ els[calls[k].ret].fired > 0

----------------------------------------------------------------------------
(* C7 *)

\* C7: when the load of an element that was unloaded while pending completes,
\* the set of attached elements does not change and no callback is called.
C7_ReleasedCompletionUnobserved ==
    [][\A e \in ElIds :
          (BodyRuns(e) /\ ReleasedPending(e)) => (dom' = dom /\ log' = log)]_vars

----------------------------------------------------------------------------
(* C4 *)

\* C4 (its second half): when the completion body of an element runs, every
\* element of its name that was loaded and attached when it was requested is
\* detached afterwards, and every attached element of another name stays
\* attached.
C4_SupersededOnCompletion ==
    [][\A e2 \in ElIds :
          BodyRuns(e2) =>
             /\ \A e1 \in els[e2].capLoaded : ~IsAttached(e1)'
             /\ \A x \in ElIds :
                   (IsAttached(x) /\ els[x].cls # els[e2].cls) => IsAttached(x)']_vars

----------------------------------------------------------------------------
(* C8 *)

BatchIds == 1..Len(batches)

\* The load calls the cursor of batch b made.
BatchCalls(b) == {k \in CallIds : calls[k].op = "load" /\ calls[k].by = b}

\* C8: a batch dispatches its items in queue order, the cursor moves past an
\* external item only when the element its load returned carries the loaded
\* marker, and onDone is called only with the cursor at the end of the queue.
C8_OneItemAtATime ==
    \A b \in BatchIds :
        /\ \A i \in 1..Len(batches[b].order), j \in 1..Len(batches[b].order) :
              i < j => batches[b].order[i] < batches[b].order[j]
        /\ \A k \in BatchCalls(b) :
              batches[b].index >= calls[k].item => els[calls[k].ret].loaded
        /\ batches[b].done > 0 =>
              \/ batches[b].queue = <<>>
              \/ batches[b].index = Len(batches[b].queue)

----------------------------------------------------------------------------
(* C9 *)

\* C9: a direct load call for a URL whose attached element carries the
\* loaded marker returns that element, calls the callback within the call,
\* and changes nothing else: no element is created or removed, no timer is
\* set and no channel changes.
C9_LoadedIsSynchronous ==
    [][\A u \in Urls :
          LET scriptEl == GetElementById(State, Id(u))
              k == Len(calls) + 1
          IN (/\ scriptEl # NoEl
              /\ els[scriptEl].loaded
              /\ Len(calls') = k
              /\ calls'[k].op = "load"
              /\ calls'[k].url = u)
             => /\ calls'[k].ret = scriptEl
                /\ els' = els
                /\ dom' = dom
                /\ subs' = subs
                /\ timers' = timers
                /\ log' = IF calls'[k].cb THEN Append(log, k) ELSE log]_vars

\* A load call found its URL loaded and its callback has been called.
C9_Witness ==
    \E k \in CbCalls : calls[k].branch = "loaded" /\ Count(log, k) = 1

----------------------------------------------------------------------------
(* C10 *)

\* The completion events of e have all been handled by the scheduler.
Handled(e) == els[e].events >= 1 /\ Count(timers, e) = 0

\* C10: however many completion events are raised for an element, the
\* guarded body of fn runs once, and it never runs within the step that
\* raises the event: that step only sets a timer.
C10_BodyOnceAndDeferred ==
    /\ [](\A e \in ElIds :
             /\ els[e].fired <= 1
             /\ Handled(e) => els[e].fired = 1)
    /\ [][\A e \in ElIds :
             els'[e].events > els[e].events =>
                /\ els'[e].fired = els[e].fired
                /\ els'[e].loaded = els[e].loaded
                /\ dom' = dom
                /\ subs' = subs
                /\ log' = log
                /\ timers' = Append(timers, e)]_vars

\* Two completion events of one element were raised and handled.
C10_Witness ==
    \E e \in ElIds : els[e].events >= 2 /\ Handled(e) /\ els[e].fired = 1

----------------------------------------------------------------------------
(* C11 *)

\* The placeholders of that id in the content document of the iframe.
Placeholders(id) == {i \in 1..Len(iframeDoc) : iframeDoc[i].id = id}

\* C11: for a URL that never had an element in the document, however many
\* prefetch calls are made and whenever their timers run, the content
\* document of the iframe holds at most one placeholder with the URL's id.
C11_PrimeIdempotent ==
    \A u \in Urls :
        (\A e \in ElIds : els[e].url # u)
            => Cardinality(Placeholders(Id(u))) <= 1

----------------------------------------------------------------------------
(* C12 *)

PrefetchCalls == {k \in CallIds : calls[k].op = "prefetch"}

\* The load calls that found no element for u and created one.
Fetches(u) ==
    {k \in CallIds : calls[k].op = "load" /\ calls[k].url = u
                                          /\ calls[k].branch = "absent"}

\* The calls this step adds to the history.
NewCalls == (Len(calls) + 1)..Len(calls')

\* C12: prefetch never creates an element or starts a load in the document:
\* the elements of a URL are the ones its load calls created, a load call
\* that follows a prefetch of the same URL that found no element creates
\* exactly one, and neither a prefetch call nor its timer changes the
\* document, the channels or the timers of load; a prefetch call that finds
\* an element of its URL in the document (loading or loaded) changes nothing
\* at all and sets no timer.
C12_PrimeLeavesDocumentAlone ==
    /\ [](\A u \in Urls :
             Cardinality({e \in ElIds : els[e].url = u}) = Cardinality(Fetches(u)))
    /\ [](\A k \in PrefetchCalls :
             (/\ k < Len(calls)
              /\ calls[k].ret = NoEl
              /\ calls[k + 1].op = "load"
              /\ calls[k + 1].url = calls[k].url)
             => /\ calls[k + 1].branch = "absent"
                /\ \A j \in 1..k : calls[j].ret # calls[k + 1].ret)
    /\ [][(NewCalls # {} /\ \A k \in NewCalls : calls'[k].op = "prefetch")
            => /\ UNCHANGED <<els, dom, subs, timers, log>>
               /\ (\A k \in NewCalls : calls'[k].ret # NoEl)
                     => UNCHANGED primer]_vars
    /\ [][iframeDoc' # iframeDoc
            => UNCHANGED <<els, dom, subs, timers, log>>]_vars

\* A prefetch found no element and the load that followed started the one
\* load of the URL; a later prefetch found that element in the document.
C12_Witness ==
    \E k \in PrefetchCalls, j \in PrefetchCalls :
        /\ k + 1 < j
        /\ calls[k].ret = NoEl
        /\ calls[k + 1].op = "load"
        /\ calls[k + 1].url = calls[k].url
        /\ calls[j].url = calls[k].url
        /\ calls[j].ret = calls[k + 1].ret

----------------------------------------------------------------------------
(* C13 *)

\* The batch this step starts, if it starts one.
NewBatch == Len(batches) + 1

\* C13: execute of a result whose queue is empty calls the callback, when
\* one is passed, exactly once and within the call, and does nothing else:
\* no element is created, no callback is registered, no load call is made
\* and no timer is set; the callback is never called again later.
C13_EmptyQueueIsSynchronous ==
    /\ [](\A b \in BatchIds :
             batches[b].queue = <<>> =>
                /\ batches[b].done = IF batches[b].onDone THEN 1 ELSE 0
                /\ BatchCalls(b) = {})
    /\ [][(Len(batches') = NewBatch /\ batches'[NewBatch].queue = <<>>)
            => /\ UNCHANGED <<els, dom, subs, timers, calls, log, primer>>
               /\ batches'[NewBatch].done =
                     IF batches'[NewBatch].onDone THEN 1 ELSE 0]_vars

\* execute was called with an empty queue and a callback, which was called.
C13_Witness ==
    \E b \in BatchIds :
        batches[b].queue = <<>> /\ batches[b].onDone /\ batches[b].done = 1

----------------------------------------------------------------------------
(* C14 *)

\* The segments of that kind, in their order.
OfKind(segs, kind) == SelectSeq(segs, LAMBDA x : x.kind = kind)

\* C14: for a markup made of pieces of text and script tags, parse returns a
\* queue with one item per script tag, in the order of the tags and with the
\* tag's url, text and name, the parsed markup is the pieces of text in
\* their order, and original is the markup as it was passed; for the empty
\* markup the queue, original and parsed are all empty.  (The pieces of text
\* hold no "<script".)
C14_ParseSplitsMarkup ==
    parseResult # NoResult =>
        LET r == parseResult[1]
            scripts == OfKind(segments, "script")
        IN /\ Len(r.queue) = Len(scripts)
           /\ \A i \in 1..Len(scripts) :
                 r.queue[i] = [url |-> scripts[i].url, text |-> scripts[i].text,
                               name |-> scripts[i].name]
           /\ r.parsed = Html(OfKind(segments, "text"))
           /\ r.original = Html(segments)
           /\ segments = <<>> =>
                 r = [original |-> <<>>, parsed |-> <<>>, queue |-> <<>>]

\* parse returned for a markup with text between two script tags.
C14_Witness ==
    /\ parseResult # NoResult
    /\ Len(segments) = 3
    /\ segments[1].kind = "script"
    /\ segments[2].kind = "text"
    /\ segments[3].kind = "script"
    /\ Len(parseResult[1].queue) = 2

----------------------------------------------------------------------------
(* C15 *)

\* C15: whenever the callback passed to a load call has been called, the
\* element that call returned carries the loaded marker.
C15_CalledOnlyWhenLoaded ==
    \A k \in CbCalls : Count(log, k) > 0 => els[calls[k].ret].loaded

----------------------------------------------------------------------------
(* C16 *)

\* e2 and then e3 were requested under the name of e1 while e1 was loaded and
\* attached (so before e2 or e3 completed), and no other script of that name
\* was requested.
BackToBack(e1, e2, e3) ==
    /\ e2 < e3
    /\ els[e1].cls # ""
    /\ e1 \in els[e2].capLoaded
    /\ e1 \in els[e3].capLoaded
    /\ \A x \in ElIds : els[x].cls = els[e1].cls => x \in {e1, e2, e3}

\* C16 as claimed: when the completion body of the second of e2 and e3 to
\* complete has run, the one attached element of the name is that second one.
C16_LastCompletionWins ==
    [][\A e1 \in ElIds, e2 \in ElIds, e3 \in ElIds :
          BackToBack(e1, e2, e3) =>
             /\ (BodyRuns(e2) /\ els[e3].fired > 0)
                   => AttachedOfClass(els[e1].cls)' = {e2}
             /\ (BodyRuns(e3) /\ els[e2].fired > 0)
                   => AttachedOfClass(els[e1].cls)' = {e3}]_vars

\* C16 as amended: when both completion bodies have run, in either order,
\* the one attached element of the name is e3, the one requested last.
C16_LastRequestWins ==
    \A e1 \in ElIds, e2 \in ElIds, e3 \in ElIds :
        (BackToBack(e1, e2, e3) /\ els[e2].fired > 0 /\ els[e3].fired > 0)
            => AttachedOfClass(els[e1].cls) = {e3}

\* Both loads completed, e3 first: its callback was delivered, which the
\* completion body of e3 only does when e2 was still attached.
C16_Witness ==
    \E e1 \in ElIds, e2 \in ElIds, e3 \in ElIds :
        /\ BackToBack(e1, e2, e3)
        /\ els[e2].fired > 0
        /\ els[e3].fired > 0
        /\ \E k \in CbCalls :
              calls[k].ret = e3 /\ calls[k].branch = "absent" /\ Count(log, k) = 1

----------------------------------------------------------------------------
(* C17 *)

\* C17: the step in which the completion body of an element runs sets its
\* loaded marker, leaves none of the captured elements attached, calls every
\* callback registered on its id once and leaves the channel empty.
C17_BodyRunsToEnd ==
    [][\A e \in ElIds :
          BodyRuns(e) =>
             /\ els'[e].loaded
             /\ \A x \in Range(els[e].cap) : ~IsAttached(x)'
             /\ \A k \in Range(subs[els[e].id]) :
                   Count(log', k) = Count(log, k) + 1
             /\ subs'[els[e].id] = <<>>]_vars

----------------------------------------------------------------------------
(* C18 *)

\* An element the cursor of batch b waits for was detached before the
\* callback of the batch was called.
Superseded(b) ==
    \E k \in BatchCalls(b) : Count(log, k) = 0 /\ ~IsAttached(calls[k].ret)

\* Every timer that is set runs: the queue of timers is empty again and
\* again.
TimersRun == []<>(timers = <<>>)

\* C18: when every load completes, every timer runs and unload is never
\* called, the callback of every execute call is called in the end, and
\* never twice.  (Stated for the batches whose awaited element stays
\* attached: a script of the same name that completes first removes it
\* together with its callbacks.)
C18_OnDoneEventuallyOnce ==
    \A b \in 1..LiveBatches :
        /\ [](b \in BatchIds => batches[b].done <= 1)
        /\ TimersRun =>
              [](b \in BatchIds =>
                   <>(b \in BatchIds /\ (batches[b].done = 1 \/ Superseded(b))))

----------------------------------------------------------------------------
(* C19 *)

AttachedWithId(id) == {e \in ElIds : IsAttached(e) /\ els[e].id = id}

\* C19: in every reachable state the document holds at most one element per
\* script id.
C19_OneAttachedPerId ==
    \A id \in Ids : Cardinality(AttachedWithId(id)) <= 1

\* A URL was loaded again after its element was detached: two elements of
\* its id exist and one of them is attached.
C19_Witness ==
    \E id \in Ids :
        /\ Cardinality({e \in ElIds : els[e].id = id}) >= 2
        /\ Cardinality(AttachedWithId(id)) = 1

----------------------------------------------------------------------------
(* C20 *)

\* C20: in every reachable state a channel that holds a callback belongs to
\* an id whose element is attached and does not carry the loaded marker.
C20_PendingImpliesLoading ==
    \A id \in Ids :
        subs[id] # <<>> => \E e \in AttachedWithId(id) : ~els[e].loaded

====
